---- MODULE Spec2Model ----
(***************************************************************************)
(* Real-time collaboration core of the notes/tasks backend (src/server.js):*)
(* the socket handshake, the connection handler, the note and task room    *)
(* handlers, the status update and the share notification, as one state    *)
(* machine.  A handler that awaits the store is split at each await: the   *)
(* part before it, and one step per resumption.                            *)
(***************************************************************************)
EXTENDS Integers, Sequences, FiniteSets, TLC

\* ------------------------------------------------------------------ bounds
\* Number of socket slots (a slot is one socket at a time; it is taken again
\* only after the previous socket is closed and has no handler in flight).
MaxConns == 3
\* Number of handlers that may be awaiting the store at the same time.
MaxInflight == 1

Conns == 1..MaxConns

\* ------------------------------------------------------------- the inputs
Nil == "-"
\* Rows of the user table.
Users == {"A", "B", "C"}
\* A user id carried by a well-signed token that has no row in the user table.
GhostId == "Z"
NoToken == "none"
BadToken == "bad"
\* A well-signed, unexpired token is written as the user id it decodes to.
Tokens == {NoToken, BadToken} \cup Users \cup {GhostId}
\* The credentials the client behind each socket slot presents: the first client
\* is user A (and also tries without a token, with a bad one and with one of a
\* deleted user), the second is user B, the others are user C.
Credentials(c) ==
    IF c = 1 THEN {NoToken, BadToken, GhostId, "A"}
    ELSE IF c = 2 THEN {"B"}
    ELSE {"C"}
\* The same clients, the second one also opening a second session of user A.
TwinCredentials(c) == IF c = 2 THEN {"B", "A"} ELSE Credentials(c)
Notes == {"n1", "n2"}
Tasks == {"t1", "t2"}
Contents == {"hello"}
Positions == {"p7"}
\* The users the owner shares tasks with over HTTP.
Grantees == {"B"}
TypingFlags == {"true"}
\* A validation that lets the unknown status through.
validStatusesLax == {"TODO", "IN_PROGRESS", "DONE", "INVALID"}
validStatuses == {"TODO", "IN_PROGRESS", "DONE"}
StatusInputs == {"DONE", "INVALID"}
\* The sharedBy / revokedBy field of a notification payload: absent, or a user.
ClaimedIdentities == {Nil, "C"}
\* The users who delete their account while the server runs.
Leavers == {"B"}
\* The updates field of a task-update payload.
Updates == {"title"}
\* The revocations array of a bulk revocation payload, for notes and for tasks.
NoteRevocations == {<<>>, <<[targetUserId |-> "B", id |-> "n1"]>>,
                    <<[targetUserId |-> "B", id |-> "n1"], [targetUserId |-> "C", id |-> "n2"]>>}
TaskRevocations == {<<>>, <<[targetUserId |-> "B", id |-> "t1"]>>,
                    <<[targetUserId |-> "B", id |-> "t1"], [targetUserId |-> "C", id |-> "t2"]>>}
Permissions == {"VIEW", "EDIT"}

\* The store's rows that the handlers query (owner columns never change).
\* A owns both notes and both tasks; A shares n1 with B, and t1 read-only with
\* B; C has no access to anything.
NoteOwner == [n \in Notes |-> "A"]
TaskOwner == [t \in Tasks |-> "A"]
InitNoteShares == {<<"n1", "B", "EDIT">>}
InitTaskShares == {<<"t1", "B", "VIEW">>}

VARIABLES
    connected,    \* connected[c]: the slot's socket is connected (its handlers are registered)
    userId,       \* socket.userId, attached at handshake
    rooms,        \* socket.rooms: the transport rooms of the socket
    activeUsers,  \* Map userId -> socket id
    noteRooms,    \* Map noteId -> Set of userIds
    taskRooms,    \* Map taskId -> Set of userIds
    users,        \* user table: ids that resolve
    noteShares,   \* sharedNotes rows <<noteId, sharedWithUserId, permission>>
    taskShares,   \* sharedTasks rows <<taskId, sharedWithUserId, permission>>
    taskStatus,   \* task.status column
    pending,      \* handlers awaiting a store call
    roomListener, \* the notes controller has put its own listener on io 'connection'
    roomHandler,  \* roomHandler[c]: the socket got a join-note-room handler from that listener
    out,          \* out[c]: the events delivered to socket c by the last step, in order
    last          \* the step just taken: event, socket, payload, the await it resumed from

vars == <<connected, userId, rooms, activeUsers, noteRooms, taskRooms, users,
          noteShares, taskShares, taskStatus, pending, roomListener, roomHandler, out, last>>
storeVars == <<users, noteShares, taskShares, taskStatus>>

\* ------------------------------------------------------------- JS Map / Set
MapHas(m, k) == k \in DOMAIN m
MapSet(m, k, v) == [x \in (DOMAIN m) \cup {k} |-> IF x = k THEN v ELSE m[x]]
MapDelete(m, k) == [x \in (DOMAIN m) \ {k} |-> m[x]]
EmptyMap == [x \in {} |-> {}]

\* ------------------------------------------------------------- room names
UserRoom(u) == <<"user", u>>
NoteRoom(n) == <<"note", n>>
TaskRoom(t) == <<"task", t>>
\* Array.from(socket.rooms).filter(room => room.startsWith(prefix))
RoomsWithPrefix(c, prefix) == {r \in rooms[c] : r[1] = prefix}
NoteRoomsOf(c) == {r[2] : r \in RoomsWithPrefix(c, "note")}
TaskRoomsOf(c) == {r[2] : r \in RoomsWithPrefix(c, "task")}

\* ------------------------------------------------------------- emitting
Event(ev, id, by, data, list) == [ev |-> ev, id |-> id, by |-> by, data |-> data, list |-> list]
Live == {c \in Conns : connected[c]}
InRoom(r) == {c \in Live : r \in rooms[c]}
Silent == [c \in Conns |-> <<>>]
Deliver(targets, e) == [c \in Conns |-> IF c \in targets THEN <<e>> ELSE <<>>]
Then(o1, o2) == [c \in Conns |-> o1[c] \o o2[c]]
\* An answer that goes to every connected socket.
SocketEmitToAll(c, e) == Deliver(Live, e)
\* socket.emit(e): to the socket itself; dropped when it is no longer connected
SocketEmit(c, e) == Deliver({c} \cap Live, e)
\* A relay that does not except the sender.
SocketToWithSender(c, r, e) == Deliver(InRoom(r), e)
\* socket.to(room).emit(e): every connected socket of the room but the sender
SocketTo(c, r, e) == Deliver(InRoom(r) \ {c}, e)
\* io.emit(e): every connected socket
IoEmit(e) == Deliver(Live, e)
\* A room emit that reaches everyone, as the note notifications do.
IoToEveryone(r, e) == IoEmit(e)
\* io.to(room).emit(e): every connected socket of the room
IoTo(r, e) == Deliver(InRoom(r), e)
\* A broadcast that also reaches the sender.
SocketBroadcastWithSender(c, e) == Deliver(Live \cup {c}, e)
\* socket.broadcast.emit(e): every connected socket but the sender
SocketBroadcast(c, e) == Deliver(Live \ {c}, e)

\* prev: the rooms a join left (previousRooms) or a disconnect closed, empty
\* for the other steps
Step(ev, c, id, arg, pc, prev) ==
    [ev |-> ev, conn |-> c, id |-> id, arg |-> arg, pc |-> pc, prev |-> prev]
Handler(c, ev, id, arg, pc, ids) ==
    [conn |-> c, ev |-> ev, id |-> id, arg |-> arg, pc |-> pc, ids |-> ids]
InflightOf(c) == {h \in pending : h.conn = c}
CanAwait == Cardinality(pending) < MaxInflight
\* The slot holds a socket, connected or closed.  An async handler does nothing
\* before its first await but issue the query, so the arrival of its event is
\* no step of the machine: the step is the handler's resumption with the
\* answer, which may come at any time after the arrival, also after the
\* socket has disconnected.  Any number of handlers may be at that first await.
Attached(c) == userId[c] # Nil

\* ------------------------------------------------------------- access gate
\* prisma.note.findFirst({id, OR: [{userId}, {sharedNotes: {some: {sharedWithUserId}}}]})
canAccessNote(u, n) ==
    n \in Notes /\ (NoteOwner[n] = u \/ \E p \in Permissions : <<n, u, p>> \in noteShares)
canAccessTask(u, t) ==
    t \in Tasks /\ (TaskOwner[t] = u \/ \E p \in Permissions : <<t, u, p>> \in taskShares)
\* An edit check that accepts any grant.
canEditTaskAnyGrant(u, t) ==
    t \in Tasks /\ (TaskOwner[t] = u \/ \E p \in Permissions : <<t, u, p>> \in taskShares)
canEditTask(u, t) ==
    t \in Tasks /\ (TaskOwner[t] = u \/ <<t, u, "EDIT">> \in taskShares)

\* ------------------------------------------------------------- handshake
\* A middleware that trusts the decoded id without looking the user up.
AuthOutcomeNoLookup(tok) ==
    IF tok = NoToken THEN "Authentication error"
    ELSE IF tok = BadToken THEN "Authentication failed"
    ELSE "ok"
\* io.use: the outcome of the authentication middleware for a token
AuthOutcome(tok) ==
    IF tok = NoToken THEN "Authentication error"
    ELSE IF tok = BadToken THEN "Authentication failed"
    ELSE IF tok \notin users THEN "User not found"
    ELSE "ok"

\* A connection attempt: the middleware, and on success the connection handler.
Handshake(c, tok) ==
    /\ ~connected[c]
    /\ InflightOf(c) = {}
    /\ last' = Step("handshake", c, Nil, tok, AuthOutcome(tok), {})
    /\ IF AuthOutcome(tok) = "ok"
         THEN /\ connected' = [connected EXCEPT ![c] = TRUE]
              /\ userId' = [userId EXCEPT ![c] = tok]
              /\ rooms' = [rooms EXCEPT ![c] = {UserRoom(tok)}]
              /\ activeUsers' = MapSet(activeUsers, tok, c)
              /\ roomHandler' = [roomHandler EXCEPT ![c] = roomListener]
              /\ out' = SocketBroadcast(c, Event("user-online", Nil, tok, Nil, {}))
         ELSE /\ out' = [Silent EXCEPT ![c] = <<Event("connect_error", Nil, Nil, AuthOutcome(tok), {})>>]
              /\ UNCHANGED <<connected, userId, roomHandler, rooms, activeUsers>>
    /\ UNCHANGED <<noteRooms, taskRooms, storeVars, pending, roomListener>>

\* socket.on('join-user-room')
JoinUserRoom(c) ==
    /\ connected[c]
    /\ rooms' = [rooms EXCEPT ![c] = @ \cup {UserRoom(userId[c])}]
    /\ out' = Silent
    /\ last' = Step("join-user-room", c, Nil, Nil, Nil, {})
    /\ UNCHANGED <<connected, userId, roomListener, roomHandler, activeUsers, noteRooms, taskRooms, storeVars, pending>>

\* A disconnect that leaves the registry as it is.
RegistryUntouched(reg, u) == reg
\* noteRooms.forEach / taskRooms.forEach of the disconnect handler
RegistryWithout(reg, u) ==
    [k \in {x \in DOMAIN reg : reg[x] \ {u} # {}} |-> reg[k] \ {u}]

\* The transport closes the socket (it leaves all its rooms), then socket.on('disconnect').
Disconnect(c) ==
    /\ connected[c]
    /\ connected' = [connected EXCEPT ![c] = FALSE]
    /\ rooms' = [rooms EXCEPT ![c] = {}]
    /\ activeUsers' = MapDelete(activeUsers, userId[c])
    /\ noteRooms' = RegistryWithout(noteRooms, userId[c])
    /\ taskRooms' = RegistryWithout(taskRooms, userId[c])
    /\ out' = Deliver(Live \ {c}, Event("user-offline", Nil, userId[c], Nil, {}))
    /\ last' = Step("disconnect", c, Nil, Nil, Nil, NoteRoomsOf(c) \cup TaskRoomsOf(c))
    /\ UNCHANGED <<userId, roomListener, roomHandler, storeVars, pending>>

\* ------------------------------------------------------------- note rooms
\* Map.get(k).add(u), the set created when absent
RegistryAdd(reg, k, u) == MapSet(reg, k, (IF MapHas(reg, k) THEN reg[k] ELSE {}) \cup {u})
\* A removal that forgets to drop the emptied set.
RegistryRemoveKeepEmpty(reg, k, u) ==
    IF ~MapHas(reg, k) THEN reg ELSE MapSet(reg, k, reg[k] \ {u})
\* if (has(k)) { get(k).delete(u); if (size === 0) delete(k) }
RegistryRemove(reg, k, u) ==
    IF ~MapHas(reg, k) THEN reg
    ELSE IF reg[k] \ {u} = {} THEN MapDelete(reg, k)
    ELSE MapSet(reg, k, reg[k] \ {u})

\* A join that leaves every room of the socket, whatever its prefix.
LeavePreviousAll(c, prefix) == {}
\* A join that leaves no previous room.
LeavePreviousNone(c, prefix) == rooms[c]
\* previousRooms.forEach(room => socket.leave(room)): the rooms that remain
LeavePrevious(c, prefix) == rooms[c] \ RoomsWithPrefix(c, prefix)

\* A join-note that admits the socket whatever canAccessNote answers.
JoinNoteUngated(c, n) ==
    /\ Attached(c)
    /\ CanAwait
    /\ rooms' = [rooms EXCEPT ![c] = (@ \ RoomsWithPrefix(c, "note")) \cup {NoteRoom(n)}]
    /\ noteRooms' = MapSet(noteRooms, n,
                          (IF MapHas(noteRooms, n) THEN noteRooms[n] ELSE {}) \cup {userId[c]})
    /\ out' = SocketTo(c, NoteRoom(n), Event("user-joined-note", n, userId[c], Nil, {}))
    /\ last' = Step("join-note", c, n, Nil, "access", NoteRoomsOf(c))
    /\ pending' = pending
           \cup {Handler(c, "join-note", n, Nil, "lookup", noteRooms'[n])}
    /\ UNCHANGED <<connected, userId, roomListener, roomHandler, activeUsers, taskRooms, storeVars>>

\* A join-note that joins the new room first and leaves the note rooms after.
JoinNoteLeavesLast(c, n) ==
    /\ Attached(c)
    /\ IF ~canAccessNote(userId[c], n)
         THEN /\ out' = SocketEmit(c, Event("access-denied", n, Nil, Nil, {}))
              /\ last' = Step("join-note", c, n, Nil, "access", {})
              /\ UNCHANGED <<rooms, noteRooms, pending>>
         ELSE /\ CanAwait
              /\ rooms' = [rooms EXCEPT ![c] = {r \in @ \cup {NoteRoom(n)} : r[1] # "note"}]
              /\ noteRooms' = RegistryAdd(noteRooms, n, userId[c])
              /\ out' = SocketTo(c, NoteRoom(n), Event("user-joined-note", n, userId[c], Nil, {}))
              /\ last' = Step("join-note", c, n, Nil, "access", NoteRoomsOf(c))
              /\ pending' = pending
                     \cup {Handler(c, "join-note", n, Nil, "lookup", RegistryAdd(noteRooms, n, userId[c])[n])}
    /\ UNCHANGED <<connected, userId, roomListener, roomHandler, activeUsers, taskRooms, storeVars>>

\* socket.on('join-note'), from the answer of canAccessNote to the await of the user lookups
JoinNote(c, n) ==
    LET u == userId[c]
        roomName == NoteRoom(n)
    IN
    /\ Attached(c)
    /\ IF ~canAccessNote(u, n)
         THEN /\ out' = SocketEmit(c, Event("access-denied", n, Nil, Nil, {}))
              /\ last' = Step("join-note", c, n, Nil, "access", {})
              /\ UNCHANGED <<rooms, noteRooms, pending>>
         ELSE /\ CanAwait
              /\ rooms' = [rooms EXCEPT ![c] = LeavePrevious(c, "note") \cup {roomName}]
              /\ noteRooms' = RegistryAdd(noteRooms, n, u)
              /\ out' = SocketTo(c, roomName, Event("user-joined-note", n, u, Nil, {}))
              /\ last' = Step("join-note", c, n, Nil, "access", NoteRoomsOf(c))
              /\ pending' = pending
                     \cup {Handler(c, "join-note", n, Nil, "lookup", RegistryAdd(noteRooms, n, u)[n])}
    /\ UNCHANGED <<connected, userId, roomListener, roomHandler, activeUsers, taskRooms, storeVars>>

\* A resumption that reads the registry again instead of the ids it took.
JoinNoteCollaboratorsLate(c, n) ==
    \E h \in pending :
        /\ h.conn = c /\ h.ev = "join-note" /\ h.id = n /\ h.pc = "lookup"
        /\ pending' = pending \ {h}
        /\ out' = SocketEmit(c, Event("note-collaborators", n, Nil, Nil,
                                      (IF MapHas(noteRooms, n) THEN noteRooms[n] ELSE {}) \cap users))
        /\ last' = Step("join-note", c, n, Nil, "lookup", {})
        /\ UNCHANGED <<connected, userId, roomListener, roomHandler, rooms, activeUsers, noteRooms, taskRooms, storeVars>>

\* join-note resumed with the users found: note-collaborators to the requester
JoinNoteCollaborators(c, n) ==
    \E h \in pending :
        /\ h.conn = c /\ h.ev = "join-note" /\ h.id = n /\ h.pc = "lookup"
        /\ pending' = pending \ {h}
        /\ out' = SocketEmit(c, Event("note-collaborators", n, Nil, Nil, h.ids \cap users))
        /\ last' = Step("join-note", c, n, Nil, "lookup", {})
        /\ UNCHANGED <<connected, userId, roomListener, roomHandler, rooms, activeUsers, noteRooms, taskRooms, storeVars>>

\* socket.on('join-note') up to its first await: the access query is issued.
\* Handlers on record are told apart by socket, event and id, so a request is
\* recorded while no request of the same socket for the same note is out.
JoinNoteArrives(c, n) ==
    /\ connected[c]
    /\ CanAwait
    /\ ~\E h \in pending : h.conn = c /\ h.ev = "join-note" /\ h.id = n
    /\ pending' = pending \cup {Handler(c, "join-note", n, Nil, "access", {})}
    /\ out' = Silent
    /\ last' = Step("join-note", c, n, Nil, "arrive", {})
    /\ UNCHANGED <<connected, userId, roomListener, roomHandler, rooms, activeUsers, noteRooms, taskRooms, storeVars>>

\* A recorded join-note that forgets the denial.
JoinNoteCheckedSilent(c, n) ==
    LET u == userId[c]
        roomName == NoteRoom(n)
    IN
    \E h \in pending :
        /\ h.conn = c /\ h.ev = "join-note" /\ h.id = n /\ h.pc = "access"
        /\ IF ~canAccessNote(u, n)
             THEN /\ out' = Silent
                  /\ last' = Step("join-note", c, n, Nil, "access", {})
                  /\ pending' = pending \ {h}
                  /\ UNCHANGED <<rooms, noteRooms>>
             ELSE /\ rooms' = [rooms EXCEPT ![c] = LeavePrevious(c, "note") \cup {roomName}]
                  /\ noteRooms' = RegistryAdd(noteRooms, n, u)
                  /\ out' = SocketTo(c, roomName, Event("user-joined-note", n, u, Nil, {}))
                  /\ last' = Step("join-note", c, n, Nil, "access", NoteRoomsOf(c))
                  /\ pending' = (pending \ {h})
                         \cup {Handler(c, "join-note", n, Nil, "lookup", RegistryAdd(noteRooms, n, u)[n])}
        /\ UNCHANGED <<connected, userId, roomListener, roomHandler, activeUsers, taskRooms, storeVars>>

\* A recorded join-note resumed with the answer of canAccessNote: JoinNote for
\* a request that JoinNoteArrives put on record
JoinNoteChecked(c, n) ==
    LET u == userId[c]
        roomName == NoteRoom(n)
    IN
    \E h \in pending :
        /\ h.conn = c /\ h.ev = "join-note" /\ h.id = n /\ h.pc = "access"
        /\ IF ~canAccessNote(u, n)
             THEN /\ out' = SocketEmit(c, Event("access-denied", n, Nil, Nil, {}))
                  /\ last' = Step("join-note", c, n, Nil, "access", {})
                  /\ pending' = pending \ {h}
                  /\ UNCHANGED <<rooms, noteRooms>>
             ELSE /\ rooms' = [rooms EXCEPT ![c] = LeavePrevious(c, "note") \cup {roomName}]
                  /\ noteRooms' = RegistryAdd(noteRooms, n, u)
                  /\ out' = SocketTo(c, roomName, Event("user-joined-note", n, u, Nil, {}))
                  /\ last' = Step("join-note", c, n, Nil, "access", NoteRoomsOf(c))
                  /\ pending' = (pending \ {h})
                         \cup {Handler(c, "join-note", n, Nil, "lookup", RegistryAdd(noteRooms, n, u)[n])}
        /\ UNCHANGED <<connected, userId, roomListener, roomHandler, activeUsers, taskRooms, storeVars>>

\* A recorded join-note whose access query rejects: canAccessNote catches
\* nothing, so the handler's catch block answers with error
JoinNoteCheckFails(c, n) ==
    \E h \in pending :
        /\ h.conn = c /\ h.ev = "join-note" /\ h.id = n /\ h.pc = "access"
        /\ pending' = pending \ {h}
        /\ out' = SocketEmit(c, Event("error", Nil, Nil, "Failed to join note", {}))
        /\ last' = Step("join-note", c, n, Nil, "failed", {})
        /\ UNCHANGED <<connected, userId, roomListener, roomHandler, rooms, activeUsers, noteRooms, taskRooms, storeVars>>

\* A failed join-note that takes the membership back.
JoinNoteLookupFailsRollback(c, n) ==
    \E h \in pending :
        /\ h.conn = c /\ h.ev = "join-note" /\ h.id = n /\ h.pc = "lookup"
        /\ pending' = pending \ {h}
        /\ rooms' = [rooms EXCEPT ![c] = @ \ {NoteRoom(n)}]
        /\ noteRooms' = RegistryRemove(noteRooms, n, userId[c])
        /\ out' = SocketEmit(c, Event("error", Nil, Nil, "Failed to join note", {}))
        /\ last' = Step("join-note", c, n, Nil, "failed", {})
        /\ UNCHANGED <<connected, userId, roomListener, roomHandler, activeUsers, taskRooms, storeVars>>

\* join-note when a user lookup rejects: the catch block answers with error
JoinNoteLookupFails(c, n) ==
    \E h \in pending :
        /\ h.conn = c /\ h.ev = "join-note" /\ h.id = n /\ h.pc = "lookup"
        /\ pending' = pending \ {h}
        /\ out' = SocketEmit(c, Event("error", Nil, Nil, "Failed to join note", {}))
        /\ last' = Step("join-note", c, n, Nil, "failed", {})
        /\ UNCHANGED <<connected, userId, roomListener, roomHandler, rooms, activeUsers, noteRooms, taskRooms, storeVars>>

\* A leave-note that asks canAccessNote first.
LeaveNoteGated(c, n) ==
    /\ connected[c]
    /\ IF ~canAccessNote(userId[c], n)
         THEN /\ out' = SocketEmit(c, Event("access-denied", n, Nil, Nil, {}))
              /\ UNCHANGED <<rooms, noteRooms>>
         ELSE /\ rooms' = [rooms EXCEPT ![c] = @ \ {NoteRoom(n)}]
              /\ noteRooms' = RegistryRemove(noteRooms, n, userId[c])
              /\ out' = SocketTo(c, NoteRoom(n), Event("user-left-note", n, userId[c], Nil, {}))
    /\ last' = Step("leave-note", c, n, Nil, IF MapHas(noteRooms, n) THEN "has" ELSE "absent", {})
    /\ UNCHANGED <<connected, userId, roomListener, roomHandler, activeUsers, taskRooms, storeVars, pending>>

\* socket.on('leave-note')
LeaveNote(c, n) ==
    /\ connected[c]
    /\ rooms' = [rooms EXCEPT ![c] = @ \ {NoteRoom(n)}]
    /\ noteRooms' = RegistryRemove(noteRooms, n, userId[c])
    /\ out' = SocketTo(c, NoteRoom(n), Event("user-left-note", n, userId[c], Nil, {}))
    /\ last' = Step("leave-note", c, n, Nil, IF MapHas(noteRooms, n) THEN "has" ELSE "absent", {})
    /\ UNCHANGED <<connected, userId, roomListener, roomHandler, activeUsers, taskRooms, storeVars, pending>>

\* createNote's background work, done: it puts one more listener on io
\* 'connection' (every socket connecting from now on gets a join-note-room
\* handler) and tells the owner on the personal channel
AiProcessingComplete(n) ==
    /\ roomListener' = TRUE
    /\ out' = IoTo(UserRoom(NoteOwner[n]), Event("ai-processing-complete", n, Nil, Nil, {}))
    /\ last' = Step("ai-processing-complete", 0, n, Nil, Nil, {})
    /\ UNCHANGED <<connected, userId, roomHandler, rooms, activeUsers, noteRooms, taskRooms,
                   storeVars, pending>>

\* createNote's background work, failed: the owner is told, no listener is added
AiProcessingFailed(n) ==
    /\ out' = IoTo(UserRoom(NoteOwner[n]), Event("ai-processing-failed", n, Nil, Nil, {}))
    /\ last' = Step("ai-processing-failed", 0, n, Nil, Nil, {})
    /\ UNCHANGED <<connected, userId, roomListener, roomHandler, rooms, activeUsers, noteRooms,
                   taskRooms, storeVars, pending>>

\* socket.on('join-note-room') of the notes controller's listener
JoinNoteRoom(c, n) ==
    /\ connected[c]
    /\ roomHandler[c]
    /\ rooms' = [rooms EXCEPT ![c] = @ \cup {NoteRoom(n)}]
    /\ out' = Silent
    /\ last' = Step("join-note-room", c, n, Nil, Nil, {})
    /\ UNCHANGED <<connected, userId, roomListener, roomHandler, activeUsers, noteRooms, taskRooms,
                   storeVars, pending>>

\* socket.on('note-content-change')
NoteContentChange(c, n, content) ==
    /\ connected[c]
    /\ out' = SocketTo(c, NoteRoom(n), Event("note-content-updated", n, userId[c], content, {}))
    /\ last' = Step("note-content-change", c, n, content, Nil, {})
    /\ UNCHANGED <<connected, userId, roomListener, roomHandler, rooms, activeUsers, noteRooms, taskRooms, storeVars, pending>>

\* socket.on('cursor-move')
CursorMove(c, n, position) ==
    /\ connected[c]
    /\ out' = SocketTo(c, NoteRoom(n), Event("user-cursor-move", n, userId[c], position, {}))
    /\ last' = Step("cursor-move", c, n, position, Nil, {})
    /\ UNCHANGED <<connected, userId, roomListener, roomHandler, rooms, activeUsers, noteRooms,
                   taskRooms, storeVars, pending>>

\* socket.on('user-typing')
UserTyping(c, n, isTyping) ==
    /\ connected[c]
    /\ out' = SocketTo(c, NoteRoom(n), Event("user-typing-update", n, userId[c], isTyping, {}))
    /\ last' = Step("user-typing", c, n, isTyping, Nil, {})
    /\ UNCHANGED <<connected, userId, roomListener, roomHandler, rooms, activeUsers, noteRooms,
                   taskRooms, storeVars, pending>>

\* DELETE /api/notes/:id/share/:userId by the note's owner: the sharing rows
\* of the user are deleted; no socket is touched
RevokeShare(n, sharedWithUserId) ==
    /\ \E s \in noteShares : s[1] = n /\ s[2] = sharedWithUserId
    /\ noteShares' = {s \in noteShares : ~(s[1] = n /\ s[2] = sharedWithUserId)}
    /\ out' = Silent
    /\ last' = Step("revoke-share", 0, n, sharedWithUserId, Nil, {})
    /\ UNCHANGED <<connected, userId, roomListener, roomHandler, rooms, activeUsers, noteRooms,
                   taskRooms, users, taskShares, taskStatus, pending>>

\* ------------------------------------------------------------- task rooms
\* socket.on('join-task'), from the answer of canAccessTask to the await of the user lookups
JoinTask(c, t) ==
    LET u == userId[c]
        roomName == TaskRoom(t)
    IN
    /\ Attached(c)
    /\ IF ~canAccessTask(u, t)
         THEN /\ out' = SocketEmit(c, Event("task-access-denied", t, Nil, Nil, {}))
              /\ last' = Step("join-task", c, t, Nil, "access", {})
              /\ UNCHANGED <<rooms, taskRooms, pending>>
         ELSE /\ CanAwait
              /\ rooms' = [rooms EXCEPT ![c] = LeavePrevious(c, "task") \cup {roomName}]
              /\ taskRooms' = RegistryAdd(taskRooms, t, u)
              /\ out' = SocketTo(c, roomName, Event("user-joined-task", t, u, Nil, {}))
              /\ last' = Step("join-task", c, t, Nil, "access", TaskRoomsOf(c))
              /\ pending' = pending
                     \cup {Handler(c, "join-task", t, Nil, "lookup", RegistryAdd(taskRooms, t, u)[t])}
    /\ UNCHANGED <<connected, userId, roomListener, roomHandler, activeUsers, noteRooms, storeVars>>

\* A join-task that announces the joiner only with the collaborator list.
JoinTaskAnnouncesLate(c, t) ==
    \E h \in pending :
        /\ h.conn = c /\ h.ev = "join-task" /\ h.id = t /\ h.pc = "lookup"
        /\ pending' = pending \ {h}
        /\ out' = Then(SocketEmit(c, Event("task-collaborators", t, Nil, Nil, h.ids \cap users)),
                       SocketTo(c, TaskRoom(t), Event("user-joined-task", t, userId[c], Nil, {})))
        /\ last' = Step("join-task", c, t, Nil, "lookup", {})
        /\ UNCHANGED <<connected, userId, roomListener, roomHandler, rooms, activeUsers, noteRooms, taskRooms, storeVars>>

\* join-task resumed with the users found: task-collaborators to the requester
JoinTaskCollaborators(c, t) ==
    \E h \in pending :
        /\ h.conn = c /\ h.ev = "join-task" /\ h.id = t /\ h.pc = "lookup"
        /\ pending' = pending \ {h}
        /\ out' = SocketEmit(c, Event("task-collaborators", t, Nil, Nil, h.ids \cap users))
        /\ last' = Step("join-task", c, t, Nil, "lookup", {})
        /\ UNCHANGED <<connected, userId, roomListener, roomHandler, rooms, activeUsers, noteRooms, taskRooms, storeVars>>

\* socket.on('join-task') up to its first await: the access query is issued
JoinTaskArrives(c, t) ==
    /\ connected[c]
    /\ CanAwait
    /\ ~\E h \in pending : h.conn = c /\ h.ev = "join-task" /\ h.id = t
    /\ pending' = pending \cup {Handler(c, "join-task", t, Nil, "access", {})}
    /\ out' = Silent
    /\ last' = Step("join-task", c, t, Nil, "arrive", {})
    /\ UNCHANGED <<connected, userId, roomListener, roomHandler, rooms, activeUsers, noteRooms, taskRooms, storeVars>>

\* A recorded join-task resumed with the answer of canAccessTask: JoinTask for
\* a request that JoinTaskArrives put on record
JoinTaskChecked(c, t) ==
    LET u == userId[c]
        roomName == TaskRoom(t)
    IN
    \E h \in pending :
        /\ h.conn = c /\ h.ev = "join-task" /\ h.id = t /\ h.pc = "access"
        /\ IF ~canAccessTask(u, t)
             THEN /\ out' = SocketEmit(c, Event("task-access-denied", t, Nil, Nil, {}))
                  /\ last' = Step("join-task", c, t, Nil, "access", {})
                  /\ pending' = pending \ {h}
                  /\ UNCHANGED <<rooms, taskRooms>>
             ELSE /\ rooms' = [rooms EXCEPT ![c] = LeavePrevious(c, "task") \cup {roomName}]
                  /\ taskRooms' = RegistryAdd(taskRooms, t, u)
                  /\ out' = SocketTo(c, roomName, Event("user-joined-task", t, u, Nil, {}))
                  /\ last' = Step("join-task", c, t, Nil, "access", TaskRoomsOf(c))
                  /\ pending' = (pending \ {h})
                         \cup {Handler(c, "join-task", t, Nil, "lookup", RegistryAdd(taskRooms, t, u)[t])}
        /\ UNCHANGED <<connected, userId, roomListener, roomHandler, activeUsers, noteRooms, storeVars>>

\* A recorded join-task whose access query rejects: the catch block answers
\* with task-error
JoinTaskCheckFails(c, t) ==
    \E h \in pending :
        /\ h.conn = c /\ h.ev = "join-task" /\ h.id = t /\ h.pc = "access"
        /\ pending' = pending \ {h}
        /\ out' = SocketEmit(c, Event("task-error", Nil, Nil, "Failed to join task", {}))
        /\ last' = Step("join-task", c, t, Nil, "failed", {})
        /\ UNCHANGED <<connected, userId, roomListener, roomHandler, rooms, activeUsers, noteRooms, taskRooms, storeVars>>

\* join-task when a user lookup rejects: the catch block answers with task-error
JoinTaskLookupFails(c, t) ==
    \E h \in pending :
        /\ h.conn = c /\ h.ev = "join-task" /\ h.id = t /\ h.pc = "lookup"
        /\ pending' = pending \ {h}
        /\ out' = SocketEmit(c, Event("task-error", Nil, Nil, "Failed to join task", {}))
        /\ last' = Step("join-task", c, t, Nil, "failed", {})
        /\ UNCHANGED <<connected, userId, roomListener, roomHandler, rooms, activeUsers, noteRooms, taskRooms, storeVars>>

\* A leave-task that clears the user from the note registry as well.
LeaveTaskBothRegistries(c, t) ==
    /\ connected[c]
    /\ rooms' = [rooms EXCEPT ![c] = @ \ {TaskRoom(t)}]
    /\ taskRooms' = RegistryRemove(taskRooms, t, userId[c])
    /\ noteRooms' = [n \in DOMAIN noteRooms |-> noteRooms[n] \ {userId[c]}]
    /\ out' = SocketTo(c, TaskRoom(t), Event("user-left-task", t, userId[c], Nil, {}))
    /\ last' = Step("leave-task", c, t, Nil, IF MapHas(taskRooms, t) THEN "has" ELSE "absent", {})
    /\ UNCHANGED <<connected, userId, roomListener, roomHandler, activeUsers, storeVars, pending>>

\* socket.on('leave-task')
LeaveTask(c, t) ==
    /\ connected[c]
    /\ rooms' = [rooms EXCEPT ![c] = @ \ {TaskRoom(t)}]
    /\ taskRooms' = RegistryRemove(taskRooms, t, userId[c])
    /\ out' = SocketTo(c, TaskRoom(t), Event("user-left-task", t, userId[c], Nil, {}))
    /\ last' = Step("leave-task", c, t, Nil, IF MapHas(taskRooms, t) THEN "has" ELSE "absent", {})
    /\ UNCHANGED <<connected, userId, roomListener, roomHandler, activeUsers, noteRooms, storeVars, pending>>

\* ------------------------------------------------------------- task status
\* socket.on('task-status-update'), from the answer of canEditTask: the denial,
\* the validation, the update issued
TaskStatusUpdate(c, t, status) ==
    /\ Attached(c)
    /\ last' = Step("task-status-update", c, t, status, "access", {})
    /\ IF ~canEditTask(userId[c], t)
         THEN /\ out' = SocketEmit(c, Event("task-update-denied", t, Nil, Nil, {}))
              /\ UNCHANGED pending
         ELSE IF status \notin validStatuses
         THEN /\ out' = SocketEmit(c, Event("task-update-error", Nil, Nil, "Invalid status", {}))
              /\ UNCHANGED pending
         ELSE /\ CanAwait
              /\ out' = Silent
              /\ pending' = pending \cup {Handler(c, "task-status-update", t, status, "update", {})}
    /\ UNCHANGED <<connected, userId, roomListener, roomHandler, rooms, activeUsers, noteRooms, taskRooms, storeVars>>

\* An update that resumes the handler without writing the status.
TaskStatusUpdateSkipWrite(c, t, status) ==
    LET h == Handler(c, "task-status-update", t, status, "update", {}) IN
    /\ h \in pending
    /\ pending' = (pending \ {h}) \cup {Handler(c, "task-status-update", t, status, "updated", {})}
    /\ out' = Silent
    /\ last' = Step("task-status-update", c, t, status, "update", {})
    /\ UNCHANGED <<connected, userId, roomListener, roomHandler, rooms, activeUsers, noteRooms, taskRooms, storeVars>>

\* prisma.task.update({where: {id}, data: {status}}) takes effect in the store
TaskStatusUpdateWrite(c, t, status) ==
    LET h == Handler(c, "task-status-update", t, status, "update", {}) IN
    /\ h \in pending
    /\ taskStatus' = [taskStatus EXCEPT ![t] = status]
    /\ pending' = (pending \ {h}) \cup {Handler(c, "task-status-update", t, status, "updated", {})}
    /\ out' = Silent
    /\ last' = Step("task-status-update", c, t, status, "update", {})
    /\ UNCHANGED <<connected, userId, roomListener, roomHandler, rooms, activeUsers, noteRooms, taskRooms,
                   users, noteShares, taskShares>>

\* resumed with the updated task: task-status-changed to the room, then to the sender
TaskStatusUpdateNotify(c, t, status) ==
    LET h == Handler(c, "task-status-update", t, status, "updated", {})
        e == Event("task-status-changed", t, userId[c], status, {})
    IN
    /\ h \in pending
    /\ pending' = pending \ {h}
    /\ out' = Then(IoTo(TaskRoom(t), e), SocketEmit(c, e))
    /\ last' = Step("task-status-update", c, t, status, "updated", {})
    /\ UNCHANGED <<connected, userId, roomListener, roomHandler, rooms, activeUsers, noteRooms, taskRooms, storeVars>>

\* ------------------------------------------------------------- share-task
\* socket.on('share-task'), from the answer of canEditTask: the denial, or the
\* notification of the target's personal room and the acknowledgement
ShareTask(c, t, target) ==
    /\ Attached(c)
    /\ last' = Step("share-task", c, t, target, "access", {})
    /\ IF ~canEditTask(userId[c], t)
         THEN out' = SocketEmit(c, Event("share-denied", t, Nil, Nil, {}))
         ELSE out' = Then(IoTo(UserRoom(target),
                               Event("global-task-shared", t, userId[c], target, {})),
                          SocketEmit(c, Event("task-share-success", t, Nil, target, {})))
    /\ UNCHANGED <<connected, userId, roomListener, roomHandler, rooms, activeUsers, noteRooms, taskRooms, storeVars, pending>>

\* POST /api/tasks/:id/share by the task's owner: a sharing row for a user who
\* exists, is not the owner and has none yet, then new-notification on the
\* user's personal channel
shareTask(t, sharedWith, permission) ==
    /\ sharedWith \in users
    /\ sharedWith # TaskOwner[t]
    /\ ~\E s \in taskShares : s[1] = t /\ s[2] = sharedWith
    /\ taskShares' = taskShares \cup {<<t, sharedWith, permission>>}
    /\ out' = IoTo(UserRoom(sharedWith),
                   Event("new-notification", t, TaskOwner[t], "TASK_SHARED", {}))
    /\ last' = Step("http-share-task", 0, t, sharedWith, Nil, {})
    /\ UNCHANGED <<connected, userId, roomListener, roomHandler, rooms, activeUsers, noteRooms,
                   taskRooms, users, noteShares, taskStatus, pending>>

\* DELETE /api/tasks/:id/share/:userId by the task's owner: the sharing rows
\* of the user are deleted, then new-notification on the user's personal
\* channel; no handler in flight is touched
revokeTaskShare(t, sharedWithUserId) ==
    /\ \E s \in taskShares : s[1] = t /\ s[2] = sharedWithUserId
    /\ taskShares' = {s \in taskShares : ~(s[1] = t /\ s[2] = sharedWithUserId)}
    /\ out' = IoTo(UserRoom(sharedWithUserId),
                   Event("new-notification", t, TaskOwner[t], "TASK_ACCESS_REVOKED", {}))
    /\ last' = Step("http-revoke-task-share", 0, t, sharedWithUserId, Nil, {})
    /\ UNCHANGED <<connected, userId, roomListener, roomHandler, rooms, activeUsers, noteRooms,
                   taskRooms, users, noteShares, taskStatus, pending>>

\* ------------------------------------------------------------- notifications
\* a || b of JavaScript for an optional payload field
OrElse(a, b) == IF a = Nil THEN b ELSE a

\* socket.on('share-note'): no await, runs when the event arrives
ShareNote(c, n, target, sharedBy) ==
    /\ connected[c]
    /\ out' = IoEmit(Event("global-note-shared", n, OrElse(sharedBy, userId[c]), target, {}))
    /\ last' = Step("share-note", c, n, <<target, sharedBy>>, Nil, {})
    /\ UNCHANGED <<connected, userId, roomListener, roomHandler, rooms, activeUsers, noteRooms, taskRooms, storeVars, pending>>

\* socket.on('revoke-access')
RevokeAccess(c, n, target, revokedBy) ==
    /\ connected[c]
    /\ out' = IoEmit(Event("global-access-revoked", n, OrElse(revokedBy, userId[c]), target, {}))
    /\ last' = Step("revoke-access", c, n, <<target, revokedBy>>, Nil, {})
    /\ UNCHANGED <<connected, userId, roomListener, roomHandler, rooms, activeUsers, noteRooms, taskRooms, storeVars, pending>>

\* A bulk emit that goes through the revocations from the last to the first.
RECURSIVE IoEmitEachReversed(_, _, _)
IoEmitEachReversed(ev, revocations, revokedBy) ==
    IF revocations = <<>> THEN Silent
    ELSE Then(IoEmitEachReversed(ev, Tail(revocations), revokedBy),
              IoEmit(Event(ev, Head(revocations).id, revokedBy,
                           Head(revocations).targetUserId, {})))

\* revocations.forEach(revocation => io.emit(ev, {...revocation, revokedBy}))
RECURSIVE IoEmitEach(_, _, _)
IoEmitEach(ev, revocations, revokedBy) ==
    IF revocations = <<>> THEN Silent
    ELSE Then(IoEmit(Event(ev, Head(revocations).id, revokedBy,
                           Head(revocations).targetUserId, {})),
              IoEmitEach(ev, Tail(revocations), revokedBy))

\* socket.on('revoke-access-bulk')
RevokeAccessBulk(c, revocations, revokedBy) ==
    /\ connected[c]
    /\ out' = IoEmitEach("global-access-revoked", revocations, revokedBy)
    /\ last' = Step("revoke-access-bulk", c, Nil, <<revocations, revokedBy>>, Nil, {})
    /\ UNCHANGED <<connected, userId, roomListener, roomHandler, rooms, activeUsers, noteRooms, taskRooms, storeVars, pending>>

\* socket.on('revoke-task-access-bulk')
RevokeTaskAccessBulk(c, revocations, revokedBy) ==
    /\ connected[c]
    /\ out' = IoEmitEach("global-task-access-revoked", revocations, revokedBy)
    /\ last' = Step("revoke-task-access-bulk", c, Nil, <<revocations, revokedBy>>, Nil, {})
    /\ UNCHANGED <<connected, userId, roomListener, roomHandler, rooms, activeUsers, noteRooms, taskRooms, storeVars, pending>>

\* socket.on('revoke-task-access'), from the answer of canEditTask
RevokeTaskAccess(c, t, target) ==
    /\ Attached(c)
    /\ last' = Step("revoke-task-access", c, t, target, "access", {})
    /\ IF ~canEditTask(userId[c], t)
         THEN out' = SocketEmit(c, Event("revoke-denied", t, Nil, Nil, {}))
         ELSE out' = Then(IoTo(UserRoom(target),
                               Event("global-task-access-revoked", t, userId[c], target, {})),
                          SocketEmit(c, Event("task-revoke-success", t, Nil, target, {})))
    /\ UNCHANGED <<connected, userId, roomListener, roomHandler, rooms, activeUsers, noteRooms, taskRooms, storeVars, pending>>

\* socket.on('current-task-deleted'), from the answer of canEditTask
CurrentTaskDeleted(c, t) ==
    /\ Attached(c)
    /\ last' = Step("current-task-deleted", c, t, Nil, "access", {})
    /\ IF ~canEditTask(userId[c], t)
         THEN out' = SocketEmit(c, Event("revoke-denied", t, Nil, Nil, {}))
         ELSE out' = Then(SocketTo(c, TaskRoom(t), Event("task-deleted", t, userId[c], Nil, {})),
                          SocketEmit(c, Event("task-revoke-success", t, Nil, Nil, {})))
    /\ UNCHANGED <<connected, userId, roomListener, roomHandler, rooms, activeUsers, noteRooms, taskRooms, storeVars, pending>>

\* socket.on('task-update'), from the answer of canEditTask
TaskUpdate(c, t, updates) ==
    /\ Attached(c)
    /\ last' = Step("task-update", c, t, updates, "access", {})
    /\ IF ~canEditTask(userId[c], t)
         THEN out' = SocketEmit(c, Event("task-update-denied", t, Nil, Nil, {}))
         ELSE out' = IoTo(TaskRoom(t), Event("task-updated", t, userId[c], updates, {}))
    /\ UNCHANGED <<connected, userId, roomListener, roomHandler, rooms, activeUsers, noteRooms, taskRooms, storeVars, pending>>

\* ------------------------------------------------------------- the store
\* deleteAccount of the profile controller: the transaction removes the notes
\* and tasks the user owns (a leaver owns none), the note shares granted to
\* the user and the user row.  It names no task share: those rows go with the
\* user row or stay, as the schema has it.  The user's sockets are not closed.
DeleteAccount(u) ==
    /\ u \in users
    /\ users' = users \ {u}
    /\ noteShares' = {s \in noteShares : s[2] # u}
    /\ taskShares' \in {taskShares, {s \in taskShares : s[2] # u}}
    /\ out' = Silent
    /\ last' = Step("delete-account", 0, u, Nil, Nil, {})
    /\ UNCHANGED <<connected, userId, roomListener, roomHandler, rooms, activeUsers, noteRooms, taskRooms, taskStatus, pending>>

\* ------------------------------------------------------------- exceptions
\* The handlers whose catch block reads taskId, a const of the try block.
TaskHandlers == {"task-status-update", "share-task", "revoke-task-access",
                 "current-task-deleted", "task-update"}

\* An exception leaves a handler: thrown by a listener without try/catch, or
\* thrown again inside the catch block of an async one (a rejected promise
\* nobody handles).  The file installs no process-level handler, so whether
\* the process goes on or exits is the runtime's choice: it goes on (handlers
\* in flight `rest`), or it exits and takes the sockets, the presence map and
\* the registries with it; the store stays.
Escapes(ev, c, id, arg, rest) ==
    /\ out' = Silent
    /\ UNCHANGED storeVars
    /\ \/ /\ last' = Step(ev, c, id, arg, "escape", {})
          /\ pending' = rest
          /\ UNCHANGED <<connected, userId, roomListener, roomHandler, rooms, activeUsers, noteRooms, taskRooms>>
       \/ /\ last' = Step(ev, c, id, arg, "crash", {})
          /\ connected' = [d \in Conns |-> FALSE]
          /\ userId' = [d \in Conns |-> Nil]
          /\ rooms' = [d \in Conns |-> {}]
          /\ activeUsers' = [x \in {} |-> 0]
          /\ noteRooms' = EmptyMap
          /\ taskRooms' = EmptyMap
          /\ pending' = {}
          /\ roomListener' = FALSE
          /\ roomHandler' = [d \in Conns |-> FALSE]

\* socket.on('note-content-change') without a payload: const {noteId, ...} = undefined throws
NoteContentChangeThrows(c) ==
    /\ connected[c]
    /\ Escapes("note-content-change", c, Nil, Nil, pending)

\* socket.on('revoke-access-bulk') without a payload: the catch block logs and returns
RevokeAccessBulkThrows(c) ==
    /\ connected[c]
    /\ out' = Silent
    /\ last' = Step("revoke-access-bulk", c, Nil, Nil, "caught", {})
    /\ UNCHANGED <<connected, userId, roomListener, roomHandler, rooms, activeUsers, noteRooms, taskRooms, storeVars, pending>>

\* canEditTask rejects (the store call fails) in one of the task handlers: the
\* catch block evaluates {userId: socket.userId, taskId} for the log before it
\* emits, and taskId is not in scope there
CanEditTaskRejects(c, ev, t) ==
    /\ Attached(c)
    /\ Escapes(ev, c, t, Nil, pending)

\* prisma.task.update rejects in task-status-update: the same catch block
TaskStatusUpdateWriteRejects(c, t, status) ==
    LET h == Handler(c, "task-status-update", t, status, "update", {}) IN
    /\ h \in pending
    /\ Escapes("task-status-update", c, t, status, pending \ {h})

\* ------------------------------------------------------------- the machine
Init ==
    /\ connected = [c \in Conns |-> FALSE]
    /\ userId = [c \in Conns |-> Nil]
    /\ rooms = [c \in Conns |-> {}]
    /\ activeUsers = [x \in {} |-> 0]
    /\ noteRooms = EmptyMap
    /\ taskRooms = EmptyMap
    /\ users = Users
    /\ noteShares = InitNoteShares
    /\ taskShares = InitTaskShares
    /\ taskStatus = [t \in Tasks |-> "TODO"]
    /\ pending = {}
    /\ roomListener = FALSE
    /\ roomHandler = [c \in Conns |-> FALSE]
    /\ out = Silent
    /\ last = Step("init", 0, Nil, Nil, Nil, {})

\* The sockets that take part in room collaboration; the last slot only
\* connects, shares and listens on its personal channel.
RoomConns == 1..(MaxConns - 1)
\* The two sockets of the specification that has the rooms of both kinds.
PairConns == {1, 2}

\* Connections come and go.
Session(cs) ==
    \/ \E c \in cs : \E tok \in Credentials(c) : Handshake(c, tok)
    \/ \E c \in cs : Disconnect(c)

\* Connections come and go, user A with up to two sessions.
TwinSession(cs) ==
    \/ \E c \in cs : \E tok \in TwinCredentials(c) : Handshake(c, tok)
    \/ \E c \in cs : Disconnect(c)

\* Note collaboration.
NoteEvents(cs) ==
    \/ \E c \in cs, n \in Notes : JoinNote(c, n)
    \/ \E c \in cs, n \in Notes : JoinNoteCollaborators(c, n)
    \/ \E c \in cs, n \in Notes : LeaveNote(c, n)

RelayEvents(cs) ==
    \E c \in cs, n \in Notes, content \in Contents : NoteContentChange(c, n, content)

\* The three relays of the note room.
AllRelayEvents(cs) ==
    \/ \E c \in cs, n \in Notes, content \in Contents : NoteContentChange(c, n, content)
    \/ \E c \in cs, n \in Notes, position \in Positions : CursorMove(c, n, position)
    \/ \E c \in cs, n \in Notes, isTyping \in TypingFlags : UserTyping(c, n, isTyping)

\* Grants taken back through the HTTP API.
NoteRevokeEvents == \E n \in Notes, u \in Users : RevokeShare(n, u)

\* Task grants given and taken back through the HTTP API.
TaskGrantEvents ==
    \/ \E t \in Tasks, u \in Grantees, p \in Permissions : shareTask(t, u, p)
    \/ \E t \in Tasks, u \in Grantees : revokeTaskShare(t, u)

\* Task collaboration.
TaskEvents(cs) ==
    \/ \E c \in cs, t \in Tasks : JoinTask(c, t)
    \/ \E c \in cs, t \in Tasks : JoinTaskCollaborators(c, t)
    \/ \E c \in cs, t \in Tasks : LeaveTask(c, t)

\* Joining task rooms (they are left by disconnecting).
TaskJoins(cs) ==
    \/ \E c \in cs, t \in Tasks : JoinTask(c, t)
    \/ \E c \in cs, t \in Tasks : JoinTaskCollaborators(c, t)

StatusEvents(cs) ==
    \/ \E c \in cs, t \in Tasks, s \in StatusInputs : TaskStatusUpdate(c, t, s)
    \/ \E c \in cs, t \in Tasks, s \in StatusInputs : TaskStatusUpdateWrite(c, t, s)
    \/ \E c \in cs, t \in Tasks, s \in StatusInputs : TaskStatusUpdateNotify(c, t, s)

ShareEvents(cs) ==
    \/ \E c \in cs : JoinUserRoom(c)
    \/ \E c \in cs, t \in Tasks, target \in Users : ShareTask(c, t, target)

\* The notifications that no access check precedes.
NoteNotifyEvents(cs) ==
    \/ \E c \in cs, n \in Notes, target \in Users, by \in ClaimedIdentities :
          ShareNote(c, n, target, by)
    \/ \E c \in cs, n \in Notes, target \in Users, by \in ClaimedIdentities :
          RevokeAccess(c, n, target, by)
    \/ \E c \in cs, revs \in NoteRevocations, by \in ClaimedIdentities :
          RevokeAccessBulk(c, revs, by)
    \/ \E c \in cs, revs \in TaskRevocations, by \in ClaimedIdentities :
          RevokeTaskAccessBulk(c, revs, by)

\* The task notifications that canEditTask precedes.
TaskNotifyEvents(cs) ==
    \/ \E c \in cs, t \in Tasks, target \in Users : ShareTask(c, t, target)
    \/ \E c \in cs, t \in Tasks, target \in Users : RevokeTaskAccess(c, t, target)
    \/ \E c \in cs, t \in Tasks : CurrentTaskDeleted(c, t)
    \/ \E c \in cs, t \in Tasks, updates \in Updates : TaskUpdate(c, t, updates)

\* Joining note rooms (they are left by disconnecting).
NoteJoins(cs) ==
    \/ \E c \in cs, n \in Notes : JoinNote(c, n)
    \/ \E c \in cs, n \in Notes : JoinNoteCollaborators(c, n)

\* The user lookups of a join fail.
JoinFailures(cs) ==
    \/ \E c \in cs, n \in Notes : JoinNoteLookupFails(c, n)
    \/ \E c \in cs, t \in Tasks : JoinTaskLookupFails(c, t)

\* Joins whose requests are on record from their arrival to their answer.
NoteRequests(cs) ==
    \/ \E c \in cs, n \in Notes : JoinNoteArrives(c, n)
    \/ \E c \in cs, n \in Notes : JoinNoteChecked(c, n)
    \/ \E c \in cs, n \in Notes : JoinNoteCheckFails(c, n)
    \/ \E c \in cs, n \in Notes : JoinNoteCollaborators(c, n)
    \/ \E c \in cs, n \in Notes : JoinNoteLookupFails(c, n)
TaskRequests(cs) ==
    \/ \E c \in cs, t \in Tasks : JoinTaskArrives(c, t)
    \/ \E c \in cs, t \in Tasks : JoinTaskChecked(c, t)
    \/ \E c \in cs, t \in Tasks : JoinTaskCheckFails(c, t)
    \/ \E c \in cs, t \in Tasks : JoinTaskCollaborators(c, t)
    \/ \E c \in cs, t \in Tasks : JoinTaskLookupFails(c, t)

\* The notes controller: the background work of createNote and the handler it
\* gives to later sockets.
ControllerEvents(cs) ==
    \/ \E n \in Notes : AiProcessingComplete(n)
    \/ \E n \in Notes : AiProcessingFailed(n)
    \/ \E c \in cs, n \in Notes : JoinNoteRoom(c, n)

\* Accounts are deleted through the HTTP API.
AccountEvents == \E u \in Leavers : DeleteAccount(u)

\* Malformed payloads and failing store calls.
FaultEvents(cs) ==
    \/ \E c \in cs : NoteContentChangeThrows(c)
    \/ \E c \in cs : RevokeAccessBulkThrows(c)
    \/ \E c \in cs, ev \in TaskHandlers, t \in Tasks : CanEditTaskRejects(c, ev, t)
    \/ \E c \in cs, t \in Tasks, s \in StatusInputs : TaskStatusUpdateWriteRejects(c, t, s)

NextNote == TwinSession(RoomConns) \/ NoteEvents(RoomConns) \/ RelayEvents(RoomConns)
NextTask == TwinSession(RoomConns) \/ TaskEvents(RoomConns)
NextStatus == Session(RoomConns) \/ TaskJoins(RoomConns) \/ StatusEvents(RoomConns)
NextShare == Session(Conns) \/ ShareEvents(Conns)
NextNotify == Session(Conns) \/ NoteNotifyEvents(Conns)
NextTaskNotify == Session(RoomConns) \/ TaskJoins(RoomConns) \/ TaskNotifyEvents(RoomConns)
NextFaults ==
    Session(RoomConns) \/ StatusEvents(RoomConns) \/ FaultEvents(RoomConns)
NextSnapshot ==
    Session(PairConns) \/ NoteJoins(PairConns) \/ TaskJoins(PairConns) \/ AccountEvents
NextChannel ==
    \/ Session(PairConns) \/ NoteEvents(PairConns) \/ TaskEvents({1})
    \/ \E c \in PairConns : JoinUserRoom(c)
NextJoins ==
    Session(PairConns) \/ NoteJoins(PairConns) \/ TaskJoins(PairConns) \/ JoinFailures(PairConns)
NextAnswer == Session(PairConns) \/ NoteRequests(PairConns) \/ TaskRequests({2})
NextAdmission == Session(PairConns) \/ NoteEvents(PairConns) \/ ControllerEvents(PairConns)
NextDelivery ==
    Session(PairConns) \/ NoteEvents(PairConns) \/ AllRelayEvents(PairConns) \/ NoteRevokeEvents
NextRevocation == Session(PairConns) \/ StatusEvents(PairConns) \/ TaskGrantEvents
NextRooms == Session(PairConns) \/ NoteEvents(PairConns) \/ TaskEvents(PairConns)
Next ==
    \/ TwinSession(Conns)
    \/ NoteEvents(Conns) \/ RelayEvents(Conns)
    \/ TaskEvents(Conns) \/ StatusEvents(Conns)
    \/ ShareEvents(Conns)
    \/ NoteNotifyEvents(Conns) \/ TaskNotifyEvents(Conns)
    \/ FaultEvents(Conns)
    \/ AccountEvents
    \/ JoinFailures(Conns)
    \/ NoteRequests(Conns)
    \/ ControllerEvents(Conns)
    \/ AllRelayEvents(Conns)
    \/ NoteRevokeEvents
    \/ TaskGrantEvents
    \/ TaskRequests(Conns)

\* Note collaboration; task rooms; the task status; the personal channels; the
\* rooms of both kinds on two sockets; and everything together.
SpecNote == Init /\ [][NextNote]_vars
SpecTask == Init /\ [][NextTask]_vars
SpecStatus == Init /\ [][NextStatus]_vars
SpecShare == Init /\ [][NextShare]_vars
SpecRooms == Init /\ [][NextRooms]_vars
SpecNotify == Init /\ [][NextNotify]_vars
SpecFaults == Init /\ [][NextFaults]_vars
SpecSnapshot == Init /\ [][NextSnapshot]_vars
SpecChannel == Init /\ [][NextChannel]_vars
SpecJoins == Init /\ [][NextJoins]_vars
SpecRevocation == Init /\ [][NextRevocation]_vars
SpecDelivery == Init /\ [][NextDelivery]_vars
SpecAdmission == Init /\ [][NextAdmission]_vars
\* Every store call eventually returns or fails: the query a recorded handler
\* awaits, be it the access query or the user lookups, comes back.  A socket
\* has one handler on record per note or task, so one condition per socket
\* and id covers both awaits.
FairAnswer ==
    /\ \A c \in PairConns, n \in Notes :
          WF_vars(\/ JoinNoteChecked(c, n) \/ JoinNoteCheckFails(c, n)
                  \/ JoinNoteCollaborators(c, n) \/ JoinNoteLookupFails(c, n))
    /\ \A c \in {2}, t \in Tasks :
          WF_vars(\/ JoinTaskChecked(c, t) \/ JoinTaskCheckFails(c, t)
                  \/ JoinTaskCollaborators(c, t) \/ JoinTaskLookupFails(c, t))
SpecAnswer == Init /\ [][NextAnswer]_vars /\ FairAnswer
SpecTaskNotify == Init /\ [][NextTaskNotify]_vars
Spec == Init /\ [][Next]_vars

\* ------------------------------------------------------------- properties
\* How many times event e is in the sequence delivered to a socket.
Count(seq, e) == Cardinality({i \in DOMAIN seq : seq[i] = e})
\* Whether an event named ev is in the sequence delivered to a socket.
Has(seq, ev) == \E i \in DOMAIN seq : seq[i].ev = ev
\* The last step is the resumption of handler ev with the answer of its access check.
Answered(ev) == last.ev = ev /\ last.pc = "access"
AnsweredNext(ev) == last'.ev = ev /\ last'.pc = "access"
OwnsOrShares(shares, owner, u, k) ==
    owner[k] = u \/ \E p \in {"VIEW", "EDIT"} : <<k, u, p>> \in shares

\* C1: a socket is never in two note rooms nor in two task rooms, and when a
\* join-note (join-task) of a user with access has run, the socket is in
\* exactly one note (task) room: the one of that join.
C1_SingleActiveRoom ==
    /\ \A c \in Conns : Cardinality(NoteRoomsOf(c)) <= 1 /\ Cardinality(TaskRoomsOf(c)) <= 1
    /\ (Answered("join-note") /\ OwnsOrShares(noteShares, NoteOwner, userId[last.conn], last.id))
          => NoteRoomsOf(last.conn) = {last.id}
    /\ (Answered("join-task") /\ OwnsOrShares(taskShares, TaskOwner, userId[last.conn], last.id))
          => TaskRoomsOf(last.conn) = {last.id}
\* A socket that was in note room n1 and in a task room has joined n2.
C1_Witness ==
    /\ Answered("join-note") /\ last.id = "n2" /\ last.prev = {"n1"}
    /\ NoteRoomsOf(last.conn) = {"n2"}
    /\ TaskRoomsOf(last.conn) # {}

\* C2: a join-note (join-task) of a user without access changes no socket's
\* rooms and neither registry, and delivers access-denied (task-access-denied)
\* to the requester and nothing to anyone else.
C2_GateBeforeMembership ==
    [][ /\ (AnsweredNext("join-note")
              /\ ~OwnsOrShares(noteShares, NoteOwner, userId[last'.conn], last'.id))
            => /\ UNCHANGED <<rooms, noteRooms, taskRooms>>
               /\ \A d \in Conns : out'[d] =
                     IF d = last'.conn /\ connected[d]
                     THEN <<Event("access-denied", last'.id, Nil, Nil, {})>> ELSE <<>>
        /\ (AnsweredNext("join-task")
              /\ ~OwnsOrShares(taskShares, TaskOwner, userId[last'.conn], last'.id))
            => /\ UNCHANGED <<rooms, noteRooms, taskRooms>>
               /\ \A d \in Conns : out'[d] =
                     IF d = last'.conn /\ connected[d]
                     THEN <<Event("task-access-denied", last'.id, Nil, Nil, {})>> ELSE <<>>
      ]_vars
\* A user without access was refused a note room that another socket is in.
C2_Witness ==
    /\ Answered("join-note")
    /\ ~OwnsOrShares(noteShares, NoteOwner, userId[last.conn], last.id)
    /\ out[last.conn] = <<Event("access-denied", last.id, Nil, Nil, {})>>
    /\ \E d \in Conns \ {last.conn} : connected[d] /\ NoteRoom(last.id) \in rooms[d]

\* C3: when a member of room note-N sends note-content-change for N, every
\* other connected member of the room receives exactly one note-content-updated
\* with the sender as updatedBy and the content sent, and nobody else (the
\* sender included) receives anything.
C3_RelayDelivery ==
    (last.ev = "note-content-change" /\ NoteRoom(last.id) \in rooms[last.conn])
        => \A d \in Conns : out[d] =
              IF d # last.conn /\ connected[d] /\ NoteRoom(last.id) \in rooms[d]
              THEN <<Event("note-content-updated", last.id, userId[last.conn], last.arg, {})>>
              ELSE <<>>
\* B, in the room of n1 with A, has sent "hello" and A has received it.
C3_Witness ==
    /\ last.ev = "note-content-change" /\ last.id = "n1" /\ last.arg = "hello"
    /\ userId[last.conn] = "B" /\ NoteRoom("n1") \in rooms[last.conn]
    /\ \E d \in Conns : userId[d] = "A" /\ connected[d]
          /\ out[d] = <<Event("note-content-updated", "n1", "B", "hello", {})>>
    /\ out[last.conn] = <<>>

\* C4 (as claimed): when a socket that is in room note-N disconnects, every
\* connected socket of another user in the room receives exactly one
\* user-left-note with N and the user id of the socket that left.
C4_DisconnectFanout ==
    [][ last'.ev = "disconnect"
          => \A n \in Notes, d \in Conns \ {last'.conn} :
                (NoteRoom(n) \in rooms[last'.conn] /\ connected[d] /\ NoteRoom(n) \in rooms[d]
                   /\ userId[d] # userId[last'.conn])
                   => Count(out'[d], Event("user-left-note", n, userId[last'.conn], Nil, {})) = 1
      ]_vars

\* C5: a task-status-update of a user who neither owns the task nor holds an
\* EDIT grant for it delivers task-update-denied to the requester and nothing
\* to anyone else, leaves the status column as it is and issues no update.
C5_StatusUpdateAuthorization ==
    [][ (AnsweredNext("task-status-update")
           /\ TaskOwner[last'.id] # userId[last'.conn]
           /\ <<last'.id, userId[last'.conn], "EDIT">> \notin taskShares)
          => /\ \A d \in Conns : out'[d] =
                   IF d = last'.conn /\ connected[d]
                   THEN <<Event("task-update-denied", last'.id, Nil, Nil, {})>> ELSE <<>>
             /\ UNCHANGED <<taskStatus, pending>>
      ]_vars
\* B, who holds only a VIEW grant for t1, asked for DONE while the owner's
\* socket is in the room of t1, and was denied.
C5_Witness ==
    /\ Answered("task-status-update") /\ last.id = "t1" /\ last.arg = "DONE"
    /\ userId[last.conn] = "B" /\ <<"t1", "B", "VIEW">> \in taskShares
    /\ out[last.conn] = <<Event("task-update-denied", "t1", Nil, Nil, {})>>
    /\ taskStatus["t1"] = "TODO"
    /\ \E d \in Conns \ {last.conn} : connected[d] /\ TaskRoom("t1") \in rooms[d]

\* C6 (as claimed): a task-status-update with a status outside TODO,
\* IN_PROGRESS, DONE delivers task-update-error to the requester, whoever sends it.
C6_InvalidStatusAnySender ==
    (Answered("task-status-update") /\ last.arg \notin {"TODO", "IN_PROGRESS", "DONE"}
       /\ connected[last.conn])
        => out[last.conn] = <<Event("task-update-error", Nil, Nil, "Invalid status", {})>>
\* C6 (amended): such an update delivers task-update-error to a requester who
\* owns the task or holds an EDIT grant, and task-update-denied to any other
\* requester; in both cases nothing is delivered to anyone else, the status
\* column stays as it is and no update is issued.
C6_InvalidStatusRejected ==
    [][ (AnsweredNext("task-status-update") /\ last'.arg \notin {"TODO", "IN_PROGRESS", "DONE"})
          => /\ \A d \in Conns : out'[d] =
                   IF d = last'.conn /\ connected[d]
                   THEN IF TaskOwner[last'.id] = userId[d]
                           \/ <<last'.id, userId[d], "EDIT">> \in taskShares
                        THEN <<Event("task-update-error", Nil, Nil, "Invalid status", {})>>
                        ELSE <<Event("task-update-denied", last'.id, Nil, Nil, {})>>
                   ELSE <<>>
             /\ UNCHANGED <<taskStatus, pending>>
      ]_vars
\* The owner of t1 sent INVALID while another socket is in the room of t1.
C6_Witness ==
    /\ Answered("task-status-update") /\ last.arg = "INVALID" /\ last.id = "t1"
    /\ TaskOwner["t1"] = userId[last.conn]
    /\ out[last.conn] = <<Event("task-update-error", Nil, Nil, "Invalid status", {})>>
    /\ \E d \in Conns \ {last.conn} : connected[d] /\ TaskRoom("t1") \in rooms[d]

\* C7: the global-task-shared of a share-task goes only to connected sockets
\* that are in the personal room of the target and are authenticated as the
\* target, and when the sender may edit the task it goes to every such socket.
C7_NotificationTargeting ==
    Answered("share-task")
        => \A d \in Conns :
              /\ Has(out[d], "global-task-shared")
                    => (connected[d] /\ userId[d] = last.arg /\ UserRoom(last.arg) \in rooms[d])
              /\ (connected[d] /\ UserRoom(last.arg) \in rooms[d]
                    /\ (TaskOwner[last.id] = userId[last.conn]
                          \/ <<last.id, userId[last.conn], "EDIT">> \in taskShares))
                    => Count(out[d], Event("global-task-shared", last.id, userId[last.conn],
                                           last.arg, {})) = 1
\* A shared t1 with B while B and C are connected: B received it, C nothing.
C7_Witness ==
    /\ Answered("share-task") /\ last.id = "t1" /\ last.arg = "B" /\ userId[last.conn] = "A"
    /\ \E d \in Conns : connected[d] /\ userId[d] = "B" /\ Has(out[d], "global-task-shared")
    /\ \E d \in Conns : connected[d] /\ userId[d] = "C" /\ out[d] = <<>>

\* C8: no key of noteRooms or taskRooms is mapped to the empty set, and after
\* a leave-note, leave-task or disconnect the leaving user is in no member set
\* it was removed from: a scope whose last member left has no entry.
C8_EmptyRoomCleanup ==
    /\ \A k \in DOMAIN noteRooms : noteRooms[k] # {}
    /\ \A k \in DOMAIN taskRooms : taskRooms[k] # {}
    /\ last.ev = "leave-note"
          => (MapHas(noteRooms, last.id) => userId[last.conn] \notin noteRooms[last.id])
    /\ last.ev = "leave-task"
          => (MapHas(taskRooms, last.id) => userId[last.conn] \notin taskRooms[last.id])
    /\ last.ev = "disconnect"
          => /\ \A k \in DOMAIN noteRooms : userId[last.conn] \notin noteRooms[k]
             /\ \A k \in DOMAIN taskRooms : userId[last.conn] \notin taskRooms[k]
\* The only member of a note's registry entry has left and the entry is gone,
\* while the registry still has an entry of a task.
C8_Witness ==
    /\ last.ev = "leave-note" /\ last.pc = "has"
    /\ ~MapHas(noteRooms, last.id)
    /\ DOMAIN taskRooms # {}

\* C9: a connection attempt without a token, with an invalid token or with a
\* token whose user id has no row changes nothing: the socket is not
\* connected, has no user, no room and no presence entry, nothing is
\* broadcast, and the client alone receives the error.
C9_AuthPrecedesEverything ==
    [][ (last'.ev = "handshake"
           /\ (last'.arg = NoToken \/ last'.arg = BadToken \/ last'.arg \notin users))
          => /\ UNCHANGED <<connected, userId, roomListener, roomHandler, rooms, activeUsers, noteRooms, taskRooms, pending>>
             /\ ~connected'[last'.conn]
             /\ \A d \in Conns : out'[d] =
                   IF d = last'.conn
                   THEN <<Event("connect_error", Nil, Nil, last'.pc, {})>> ELSE <<>>
             /\ last'.pc \in {"Authentication error", "Authentication failed", "User not found"}
      ]_vars
\* The token of a deleted user was refused while another socket is connected.
C9_Witness ==
    /\ last.ev = "handshake" /\ last.arg = GhostId /\ last.pc = "User not found"
    /\ \E d \in Conns \ {last.conn} : connected[d]
    /\ ~connected[last.conn]

\* C10 (as claimed): when a join-note (join-task) has made the socket leave
\* the room of another note (task), the user is no longer in the registry
\* member set of that note (task).
C10_RegistryFollowsLeave ==
    /\ Answered("join-note")
          => \A m \in last.prev \ {last.id} :
                ~(MapHas(noteRooms, m) /\ userId[last.conn] \in noteRooms[m])
    /\ Answered("join-task")
          => \A m \in last.prev \ {last.id} :
                ~(MapHas(taskRooms, m) /\ userId[last.conn] \in taskRooms[m])

\* C11: right after a disconnect processed while no handler of that socket is
\* awaiting the store, the user of the socket is in no member set of noteRooms
\* or taskRooms, whatever rooms the socket was in, and activeUsers has no
\* entry for that user.
C11_DisconnectCleanup ==
    (last.ev = "disconnect" /\ InflightOf(last.conn) = {})
        => /\ \A k \in DOMAIN noteRooms : userId[last.conn] \notin noteRooms[k]
           /\ \A k \in DOMAIN taskRooms : userId[last.conn] \notin taskRooms[k]
           /\ ~MapHas(activeUsers, userId[last.conn])
\* A socket that was in the rooms of n1 and t1 and never left them has
\* disconnected, while another user's socket is still registered for n1.
C11_Witness ==
    /\ last.ev = "disconnect" /\ InflightOf(last.conn) = {}
    /\ {"n1", "t1"} \subseteq last.prev
    /\ MapHas(noteRooms, "n1")
    /\ \E d \in Conns \ {last.conn} : connected[d] /\ NoteRoom("n1") \in rooms[d]

\* C12 (as claimed): in every state activeUsers has an entry for a user
\* exactly when some connected socket is authenticated as that user, also
\* when the user has two sockets and closes one of them.
C12_PresenceMatchesConnectivity ==
    \A u \in Users :
        MapHas(activeUsers, u) <=> \E c \in Conns : connected[c] /\ userId[c] = u

\* C14 (as claimed): a note-content-change naming note N sent by a socket
\* that is not in room note-N, of a user who has no access to N, delivers
\* nothing to anyone.
C14_RelayConfinedToSendersRoom ==
    (last.ev = "note-content-change" /\ NoteRoom(last.id) \notin rooms[last.conn]
       /\ ~OwnsOrShares(noteShares, NoteOwner, userId[last.conn], last.id))
        => \A d \in Conns : out[d] = <<>>

\* C13 (as claimed): a share-note or revoke-access sent by a user who neither
\* owns the note nor has a share of it delivers no global-note-shared and no
\* global-access-revoked to any socket.
C13_ShareAndRevokeGated ==
    (last.ev \in {"share-note", "revoke-access"}
       /\ ~OwnsOrShares(noteShares, NoteOwner, userId[last.conn], last.id))
        => \A d \in Conns :
              ~Has(out[d], "global-note-shared") /\ ~Has(out[d], "global-access-revoked")

\* The denial event of each task notification handler.
DenialOf(ev) ==
    IF ev = "share-task" THEN "share-denied"
    ELSE IF ev = "task-update" THEN "task-update-denied"
    ELSE "revoke-denied"
\* C17: a share-task, revoke-task-access, task-update or current-task-deleted
\* of a user who neither owns the task nor holds an EDIT grant delivers exactly
\* one denial event (share-denied, revoke-denied, task-update-denied) to the
\* requester, nothing to any other socket, and changes neither the sockets
\* (all stay connected, in their rooms), nor the registries, the presence
\* map, the store or the handlers in flight.
C17_AuthorizationFailureLocal ==
    [][ (last'.ev \in {"share-task", "revoke-task-access", "task-update", "current-task-deleted"}
           /\ last'.pc = "access"
           /\ TaskOwner[last'.id] # userId[last'.conn]
           /\ <<last'.id, userId[last'.conn], "EDIT">> \notin taskShares)
          => /\ \A d \in Conns : out'[d] =
                   IF d = last'.conn /\ connected[d]
                   THEN <<Event(DenialOf(last'.ev), last'.id, Nil, Nil, {})>> ELSE <<>>
             /\ UNCHANGED <<connected, userId, roomListener, roomHandler, rooms, activeUsers, noteRooms, taskRooms,
                            users, noteShares, taskShares, taskStatus, pending>>
      ]_vars
\* B, who holds only a VIEW grant for t1 and is in its room with the owner,
\* sent task-update for t1 and was denied.
C17_Witness ==
    /\ last.ev = "task-update" /\ last.pc = "access" /\ last.id = "t1"
    /\ userId[last.conn] = "B" /\ connected[last.conn]
    /\ TaskRoom("t1") \in rooms[last.conn]
    /\ out[last.conn] = <<Event("task-update-denied", "t1", Nil, Nil, {})>>
    /\ \E d \in Conns \ {last.conn} :
          connected[d] /\ userId[d] = "A" /\ TaskRoom("t1") \in rooms[d] /\ out[d] = <<>>

\* C15 (as claimed): when a note-content-change or a revoke-access-bulk
\* arrives without a payload, the exception is caught inside the handler,
\* the requester stays connected and receives an error event.
C15_HandlerBoundaryContainment ==
    (last.ev \in {"note-content-change", "revoke-access-bulk"}
       /\ last.pc \in {"caught", "escape", "crash"})
        => /\ last.pc = "caught"
           /\ connected[last.conn]
           /\ out[last.conn] # <<>>

\* The error event of each task handler's catch block.
ErrorOf(ev) ==
    IF ev = "share-task" THEN "share-error"
    ELSE IF ev \in {"revoke-task-access", "current-task-deleted"} THEN "revoke-error"
    ELSE "task-update-error"
\* C16 (as claimed): when the store call of a task-status-update, share-task,
\* revoke-task-access or task-update fails (the handler does not resume from
\* its await with an answer), the requester stays connected and receives the
\* error event of the handler, and no other socket receives anything.
C16_DownstreamFailureReported ==
    (last.ev \in {"task-status-update", "share-task", "revoke-task-access", "task-update"}
       /\ last.pc \notin {"access", "update", "updated"})
        => /\ connected[last.conn]
           /\ Has(out[last.conn], ErrorOf(last.ev))
           /\ \A d \in Conns \ {last.conn} : out[d] = <<>>

\* A task-status-update handler that has come back from its store write.
Written(h) == h.ev = "task-status-update" /\ h.pc = "updated"
\* C18: a task-status-update handler comes back from its write only in a step
\* that puts its status into the store; a task-status-changed is delivered
\* only by a handler that has come back from its write; and when it resumes,
\* every connected member of room task-N and the sender, member of the room
\* or not, when still connected, receive task-status-changed with N, the
\* sender and the status, and nobody else receives anything.
C18_StatusUpdateOrdering ==
    [][ /\ \A h \in pending' \ pending : Written(h) => taskStatus'[h.id] = h.arg
        /\ (\E d \in Conns : Has(out'[d], "task-status-changed"))
              => /\ last'.ev = "task-status-update"
                 /\ \E h \in pending \ pending' :
                       Written(h) /\ h.conn = last'.conn /\ h.id = last'.id /\ h.arg = last'.arg
        /\ (last'.ev = "task-status-update" /\ last'.pc = "updated")
              => \A d \in Conns :
                    IF connected[d] /\ (d = last'.conn \/ TaskRoom(last'.id) \in rooms[d])
                    THEN Count(out'[d], Event("task-status-changed", last'.id,
                                              userId[last'.conn], last'.arg, {})) >= 1
                    ELSE out'[d] = <<>>
      ]_vars
\* The owner, who is not in the room of t1, has set t1 to DONE and received
\* the confirmation; B, who is in the room, received the change.
C18_Witness ==
    /\ last.ev = "task-status-update" /\ last.pc = "updated" /\ last.id = "t1"
    /\ connected[last.conn] /\ TaskRoom("t1") \notin rooms[last.conn]
    /\ Has(out[last.conn], "task-status-changed")
    /\ taskStatus["t1"] = "DONE"
    /\ \E d \in Conns \ {last.conn} :
          connected[d] /\ TaskRoom("t1") \in rooms[d] /\ Has(out[d], "task-status-changed")

\* The registry of a join handler and the event it answers with.
RegistryOf(reg, k) == IF k \in DOMAIN reg THEN reg[k] ELSE {}
\* C19: a granted join-note (join-task) of scope N takes the member set that
\* the registry has for N right after the requester was added, the requester
\* included; when the handler resumes from the user lookups it delivers
\* note-collaborators (task-collaborators) for N to the requester only, and
\* the list is that member set without the ids that have no user row.
C19_CollaboratorSnapshot ==
    [][ /\ \A h \in pending' \ pending :
              (h.ev = "join-note" /\ h.pc = "lookup")
                 => /\ h.ids = RegistryOf(noteRooms', h.id)
                    /\ h.ids = RegistryOf(noteRooms, h.id) \cup {userId[h.conn]}
        /\ \A h \in pending' \ pending :
              (h.ev = "join-task" /\ h.pc = "lookup")
                 => /\ h.ids = RegistryOf(taskRooms', h.id)
                    /\ h.ids = RegistryOf(taskRooms, h.id) \cup {userId[h.conn]}
        /\ (last'.ev \in {"join-note", "join-task"} /\ last'.pc = "lookup")
              => \E h \in pending \ pending' :
                    /\ h.conn = last'.conn /\ h.ev = last'.ev /\ h.id = last'.id
                    /\ \A d \in Conns : out'[d] =
                          IF d = last'.conn /\ connected[d]
                          THEN <<Event(IF h.ev = "join-note" THEN "note-collaborators"
                                       ELSE "task-collaborators",
                                       h.id, Nil, Nil, {u \in h.ids : u \in users})>>
                          ELSE <<>>
      ]_vars
\* A joined n1 after B had joined it and B's account was deleted: B's socket
\* is still in the room and B's id in the member set, and A is told of A alone.
C19_Witness ==
    /\ last.ev = "join-note" /\ last.pc = "lookup" /\ last.id = "n1"
    /\ userId[last.conn] = "A" /\ connected[last.conn]
    /\ "B" \notin users
    /\ out[last.conn] = <<Event("note-collaborators", "n1", Nil, Nil, {"A"})>>
    /\ \E d \in Conns \ {last.conn} : userId[d] = "B" /\ connected[d] /\ NoteRoom("n1") \in rooms[d]

\* C20: after every step, each connected socket is in exactly one personal
\* room, the one of its own user, whatever join-note, join-task, leave-note,
\* leave-task or join-user-room events came before; and a join-user-room
\* leaves the rooms of every socket as they were.
C20_PersonalChannelMembership ==
    [][ /\ \A c \in Conns :
              connected'[c] => RoomsWithPrefix(c, "user")' = {UserRoom(userId'[c])}
        /\ last'.ev = "join-user-room" => rooms' = rooms
      ]_vars
\* A socket that joined n1, then n2, and is in the room of t1 has sent
\* join-user-room.
C20_Witness ==
    /\ last.ev = "join-user-room"
    /\ connected[last.conn]
    /\ rooms[last.conn] = {UserRoom(userId[last.conn]), NoteRoom("n2"), TaskRoom("t1")}
    /\ MapHas(noteRooms, "n1") /\ userId[last.conn] \in noteRooms["n1"]

\* C21 (as claimed): every global-note-shared and global-access-revoked that
\* a share-note, revoke-access, revoke-access-bulk or revoke-task-access-bulk
\* delivers names as sharedBy / revokedBy the user the sending socket was
\* authenticated as.
C21_ActingIdentityAuthentic ==
    last.ev \in {"share-note", "revoke-access", "revoke-access-bulk", "revoke-task-access-bulk"}
        => \A d \in Conns : \A i \in DOMAIN out[d] : out[d][i].by = userId[last.conn]

\* The notification of each bulk handler.
BulkEventOf(ev) ==
    IF ev = "revoke-access-bulk" THEN "global-access-revoked" ELSE "global-task-access-revoked"
\* C22: a revoke-access-bulk (revoke-task-access-bulk) with a list of k
\* revocations delivers to every connected socket exactly k
\* global-access-revoked (global-task-access-revoked) events, the i-th with
\* the target and the scope id of the i-th revocation, and none for an empty
\* list; a socket that is not connected receives nothing.
C22_BulkRevocationFanout ==
    (last.ev \in {"revoke-access-bulk", "revoke-task-access-bulk"} /\ last.pc = Nil)
        => LET revocations == last.arg[1] IN
           \A d \in Conns :
              IF connected[d]
              THEN /\ Len(out[d]) = Len(revocations)
                   /\ \A i \in 1..Len(revocations) :
                         /\ out[d][i].ev = BulkEventOf(last.ev)
                         /\ out[d][i].id = revocations[i].id
                         /\ out[d][i].data = revocations[i].targetUserId
              ELSE out[d] = <<>>
\* A bulk revocation of two note grants has been sent while all sockets are
\* connected: each has the two events, B's n1 first.
C22_Witness ==
    /\ last.ev = "revoke-access-bulk" /\ last.pc = Nil
    /\ Len(last.arg[1]) = 2
    /\ \A d \in Conns : connected[d] /\ Len(out[d]) = 2
                         /\ out[d][1].data = "B" /\ out[d][1].id = "n1"
                         /\ out[d][2].data = "C" /\ out[d][2].id = "n2"

\* C23: when a connection is accepted, every socket that is connected at
\* that moment receives exactly one user-online with the user id of the new
\* socket, and the new socket and the closed sockets receive nothing.
C23_OnlineBroadcast ==
    (last.ev = "handshake" /\ last.pc = "ok")
        => \A d \in Conns : out[d] =
              IF d # last.conn /\ connected[d]
              THEN <<Event("user-online", Nil, userId[last.conn], Nil, {})>>
              ELSE <<>>
\* C has connected while A and B are connected: both are told.
C23_Witness ==
    /\ last.ev = "handshake" /\ last.pc = "ok" /\ userId[last.conn] = "C"
    /\ \E a, b \in Conns \ {last.conn} :
          /\ userId[a] = "A" /\ userId[b] = "B"
          /\ out[a] = <<Event("user-online", Nil, "C", Nil, {})>>
          /\ out[b] = <<Event("user-online", Nil, "C", Nil, {})>>
    /\ out[last.conn] = <<>>

\* C24 (as claimed): in every state, each user id in a member set of
\* noteRooms or taskRooms is the user of some connected socket.
C24_NoGhostMembers ==
    /\ \A k \in DOMAIN noteRooms : \A u \in noteRooms[k] :
          \E c \in Conns : connected[c] /\ userId[c] = u
    /\ \A k \in DOMAIN taskRooms : \A u \in taskRooms[k] :
          \E c \in Conns : connected[c] /\ userId[c] = u

JoinErrorOf(ev) ==
    IF ev = "join-note" THEN Event("error", Nil, Nil, "Failed to join note", {})
    ELSE Event("task-error", Nil, Nil, "Failed to join task", {})
\* C26: when the user lookups of a granted join-note (join-task) fail, the
\* requester, if still connected, receives error (task-error) and nothing
\* else, no other socket receives anything, and the rooms of every socket,
\* both registries and the presence map stay as the join left them.
C26_JoinFailureWithoutRollback ==
    [][ (last'.ev \in {"join-note", "join-task"} /\ last'.pc = "failed")
          => /\ \A d \in Conns : out'[d] =
                   IF d = last'.conn /\ connected[d] THEN <<JoinErrorOf(last'.ev)>> ELSE <<>>
             /\ UNCHANGED <<connected, rooms, noteRooms, taskRooms, activeUsers>>
      ]_vars
\* The lookups of B's join of n1 have failed: B has the error, is in the room
\* with A and in the member set of n1.
C26_Witness ==
    /\ last.ev = "join-note" /\ last.pc = "failed" /\ last.id = "n1"
    /\ userId[last.conn] = "B"
    /\ out[last.conn] = <<Event("error", Nil, Nil, "Failed to join note", {})>>
    /\ NoteRoom("n1") \in rooms[last.conn]
    /\ MapHas(noteRooms, "n1") /\ noteRooms["n1"] = {"A", "B"}
    /\ \E d \in Conns \ {last.conn} : connected[d] /\ NoteRoom("n1") \in rooms[d] /\ out[d] = <<>>

\* The room, the registries before and after, and the event of a leave step.
LeaveRoomOf(ev, id) == IF ev = "leave-note" THEN NoteRoom(id) ELSE TaskRoom(id)
LeaveEventOf(ev) == IF ev = "leave-note" THEN "user-left-note" ELSE "user-left-task"
\* C27: leave-note (leave-task) for N, whatever the sender's access to N,
\* takes the sender's socket out of room N and out of no other room, takes
\* the sender's user id out of the member set of N, awaits nothing, and
\* delivers exactly one user-left-note (user-left-task) carrying the sender's
\* user id to every connected socket that is in room N, the sender excepted;
\* no other socket receives anything.
C27_ExplicitLeave ==
    [][ last'.ev \in {"leave-note", "leave-task"}
          => LET c == last'.conn
                 n == last'.id
                 room == LeaveRoomOf(last'.ev, n)
                 reg == IF last'.ev = "leave-note" THEN noteRooms' ELSE taskRooms'
             IN /\ rooms' = [rooms EXCEPT ![c] = @ \ {room}]
                /\ MapHas(reg, n) => userId[c] \notin reg[n]
                /\ pending' = pending
                /\ \A d \in Conns : out'[d] =
                      IF d # c /\ connected[d] /\ room \in rooms[d]
                      THEN <<Event(LeaveEventOf(last'.ev), n, userId[c], Nil, {})>>
                      ELSE <<>>
      ]_vars
\* B, a member of room n1 together with A, has left it: A has the one
\* user-left-note and the member set of n1 is down to A.
C27_Witness ==
    /\ last.ev = "leave-note" /\ last.id = "n1" /\ userId[last.conn] = "B"
    /\ NoteRoom("n1") \notin rooms[last.conn]
    /\ MapHas(noteRooms, "n1") /\ noteRooms["n1"] = {"A"}
    /\ \E d \in Conns \ {last.conn} :
          /\ NoteRoom("n1") \in rooms[d]
          /\ out[d] = <<Event("user-left-note", "n1", "B", Nil, {})>>
    /\ out[last.conn] = <<>>

\* C28: a join-note or leave-note step changes no socket's membership of a
\* 'task-' room and leaves taskRooms as it was; a join-task or leave-task
\* step changes no socket's membership of a 'note-' room and leaves noteRooms
\* as it was.
C28_ScopeTypesIndependent ==
    [][ /\ last'.ev \in {"join-note", "leave-note"}
            => /\ taskRooms' = taskRooms
               /\ \A d \in Conns : {r \in rooms'[d] : r[1] = "task"} = {r \in rooms[d] : r[1] = "task"}
        /\ last'.ev \in {"join-task", "leave-task"}
            => /\ noteRooms' = noteRooms
               /\ \A d \in Conns : {r \in rooms'[d] : r[1] = "note"} = {r \in rooms[d] : r[1] = "note"}
      ]_vars
\* B, in note room n1 and task room t1, has left the task room: it is still
\* in room n1 and in the member set of n1.
C28_Witness ==
    /\ last.ev = "leave-task" /\ last.id = "t1" /\ userId[last.conn] = "B"
    /\ last.pc = "has"
    /\ NoteRoomsOf(last.conn) = {"n1"} /\ TaskRoomsOf(last.conn) = {}
    /\ MapHas(noteRooms, "n1") /\ "B" \in noteRooms["n1"]
    /\ ~MapHas(taskRooms, "t1")

\* The three answers of a join, the requests on record, and a request's end.
JoinAnswersOf(ev) ==
    IF ev = "join-note" THEN {"access-denied", "note-collaborators", "error"}
    ELSE {"task-access-denied", "task-collaborators", "task-error"}
AnswersIn(seq, ev) == Cardinality({i \in DOMAIN seq : seq[i].ev \in JoinAnswersOf(ev)})
JoinWaiting(c, ev, id) == \E h \in pending : h.conn = c /\ h.ev = ev /\ h.id = id
JoinArrived(c, ev, id) == Handler(c, ev, id, Nil, "access", {}) \in pending
JoinFinished(c, ev, id) ==
    /\ last.ev = ev /\ last.conn = c /\ last.id = id
    /\ last.pc \in {"access", "lookup", "failed"}
    /\ ~JoinWaiting(c, ev, id)
JoinIds(ev) == IF ev = "join-note" THEN Notes ELSE Tasks
\* The sockets whose requests are on record.
Requesters(ev) == IF ev = "join-note" THEN PairConns ELSE {2}
\* No step of a join delivers two answers, an answer to another socket than
\* the requester's, or an answer while the handler has an await ahead.
JoinAnswersOnce ==
    [][ last'.ev \in {"join-note", "join-task"}
          => \A d \in Conns :
                AnswersIn(out'[d], last'.ev) =
                    IF /\ d = last'.conn /\ connected[d]
                       /\ last'.pc \in {"access", "lookup", "failed"}
                       /\ ~\E h \in pending' : h.conn = d /\ h.ev = last'.ev /\ h.id = last'.id
                    THEN 1 ELSE 0
      ]_vars
\* C29: provided every store call returns or fails, every join-note
\* (join-task) that arrived comes to an end, and at that end exactly one of
\* the three answers has been emitted on the requester's socket: the socket,
\* if still connected, has received exactly one of them (an emit on a closed
\* socket reaches nobody); no step of the handler delivers a second answer,
\* an answer to another socket, or an answer with an await still ahead.
C29_EveryJoinAnsweredOnce ==
    /\ \A ev \in {"join-note", "join-task"} : \A c \in Requesters(ev), id \in JoinIds(ev) :
          JoinArrived(c, ev, id)
              ~> (JoinFinished(c, ev, id)
                    /\ AnswersIn(out[c], ev) = (IF connected[c] THEN 1 ELSE 0))
    /\ JoinAnswersOnce
\* B's recorded join of n1 has come to its end with the collaborator list.
C29_Witness ==
    /\ JoinFinished(last.conn, "join-note", "n1") /\ last.pc = "lookup"
    /\ userId[last.conn] = "B" /\ connected[last.conn]
    /\ out[last.conn] = <<Event("note-collaborators", "n1", Nil, Nil, {"A", "B"})>>

\* The announcement and the list of a join, and whether the user may join.
JoinedEventOf(ev) == IF ev = "join-note" THEN "user-joined-note" ELSE "user-joined-task"
ListEventOf(ev) == IF ev = "join-note" THEN "note-collaborators" ELSE "task-collaborators"
MayJoin(ev, u, id) ==
    IF ev = "join-note" THEN OwnsOrShares(noteShares, NoteOwner, u, id)
    ELSE OwnsOrShares(taskShares, TaskOwner, u, id)
\* C30: the step of a granted join-note (join-task) of N that puts the socket
\* into room N delivers exactly one user-joined-note (user-joined-task) with
\* the joining user's id to every connected socket that is in room N, the
\* joiner excepted, and nothing to anyone else; the collaborator list is
\* delivered by a later step of the same handler, which announces nothing.
C30_JoinAnnouncement ==
    [][ last'.ev \in {"join-note", "join-task"}
          => LET c == last'.conn
                 n == last'.id
                 room == IF last'.ev = "join-note" THEN NoteRoom(n) ELSE TaskRoom(n)
             IN /\ (last'.pc = "access" /\ MayJoin(last'.ev, userId[c], n))
                     => /\ \A d \in Conns : out'[d] =
                              IF d # c /\ connected[d] /\ room \in rooms[d]
                              THEN <<Event(JoinedEventOf(last'.ev), n, userId[c], Nil, {})>>
                              ELSE <<>>
                        /\ \E h \in pending' : h.conn = c /\ h.ev = last'.ev /\ h.id = n /\ h.pc = "lookup"
                /\ last'.pc = "lookup"
                     => /\ \E h \in pending : h.conn = c /\ h.ev = last'.ev /\ h.id = n /\ h.pc = "lookup"
                        /\ \A d \in Conns : ~Has(out'[d], JoinedEventOf(last'.ev))
                        /\ connected[c] => Has(out'[c], ListEventOf(last'.ev))
      ]_vars
\* B has joined room n1, in which A already is: A has the one
\* user-joined-note naming B, B has nothing yet, its list is still to come.
C30_Witness ==
    /\ Answered("join-note") /\ last.id = "n1" /\ userId[last.conn] = "B"
    /\ \E d \in Conns \ {last.conn} :
          /\ connected[d] /\ userId[d] = "A" /\ NoteRoom("n1") \in rooms[d]
          /\ out[d] = <<Event("user-joined-note", "n1", "B", Nil, {})>>
    /\ out[last.conn] = <<>>
    /\ \E h \in pending : h.conn = last.conn /\ h.ev = "join-note" /\ h.pc = "lookup"

\* C31: a socket enters room note-N only by a join-note of N whose access
\* check the socket's user passes; no other step puts a socket into a note
\* room.
C31_AdmissionOnlyThroughGate ==
    [][ \A d \in Conns, n \in Notes :
          (NoteRoom(n) \in rooms'[d] /\ NoteRoom(n) \notin rooms[d])
              => /\ last'.ev = "join-note" /\ last'.conn = d /\ last'.id = n
                 /\ canAccessNote(userId[d], n)
      ]_vars

\* The events the note room relays.
RelayedEvents == {"note-content-updated", "user-cursor-move", "user-typing-update"}
\* C32: a socket that receives a relayed event of note N belongs to a user
\* who, in the store as it is at the delivery, owns N or holds a grant for N.
C32_DeliveryRespectsAccess ==
    \A d \in Conns : \A i \in DOMAIN out[d] :
        out[d][i].ev \in RelayedEvents
            => OwnsOrShares(noteShares, NoteOwner, userId[d], out[d][i].id)

\* C33: when a socket that is in room note-N leaves N, or disconnects, while
\* another connected socket of the same user is in room note-N, the user's
\* id stays in the member set of N; the same for task rooms.
C33_RegistryKeepsOtherSession ==
    [][ last'.ev \in {"leave-note", "leave-task", "disconnect"}
          => \A d \in Conns \ {last'.conn} :
                (connected'[d] /\ userId'[d] = userId[last'.conn])
                    => /\ \A n \in Notes :
                             (NoteRoom(n) \in rooms[last'.conn] /\ NoteRoom(n) \in rooms'[d])
                                 => (MapHas(noteRooms', n) /\ userId'[d] \in noteRooms'[n])
                       /\ \A t \in Tasks :
                             (TaskRoom(t) \in rooms[last'.conn] /\ TaskRoom(t) \in rooms'[d])
                                 => (MapHas(taskRooms', t) /\ userId'[d] \in taskRooms'[t])
      ]_vars

\* C34: the step in which a task-status-update writes the status is taken
\* only while the sender owns the task or holds an EDIT grant for it in the
\* store; with the grant gone the persisted status stays as it is.
C34_NoWriteAfterRevocation ==
    [][ (last'.ev = "task-status-update" /\ last'.pc = "update")
          => \/ canEditTask(userId[last'.conn], last'.id)
             \/ taskStatus' = taskStatus
      ]_vars

\* C35: when a socket disconnects while another socket of the same user is
\* connected, nobody receives user-offline and the user's presence entry
\* stays.
C35_OfflineOnlyWhenReallyOffline ==
    [][ (/\ last'.ev = "disconnect"
         /\ \E d \in Conns \ {last'.conn} : connected'[d] /\ userId'[d] = userId[last'.conn])
          => /\ \A d \in Conns : ~Has(out'[d], "user-offline")
             /\ MapHas(activeUsers', userId[last'.conn])
      ]_vars

\* C36: the step that announces a written status delivers task-status-changed
\* at most once to each socket, the sender included.
C36_NoDuplicateConfirmation ==
    [][ (last'.ev = "task-status-update" /\ last'.pc = "updated")
          => \A d \in Conns :
                Cardinality({i \in DOMAIN out'[d] : out'[d][i].ev = "task-status-changed"}) <= 1
      ]_vars
====
